---- MODULE Spec2Model ----
(***************************************************************************)
(* OmniExtract: the file-type dispatch and recursive extraction pipeline   *)
(* (src/services/geminiService.ts) and the upload queue of the             *)
(* presentation layer that drives it (src/App.tsx).                        *)
(*                                                                         *)
(* Strings are TLA+ strings; TLC applies Len, SubSeq and \o to them, so    *)
(* file names, media types and extracted text are modelled as the strings  *)
(* the code handles. The parser rejects some accented letters inside a     *)
(* string, so the Vietnamese literals of the source are written here       *)
(* without their diacritics.                                               *)
(*                                                                         *)
(* A File is [name, type, size, bytes]; bytes says what each reader or     *)
(* decoder of the code makes of the payload:                               *)
(*   zip      JSZip.loadAsync opens it as a container                      *)
(*   entries  the container's central directory, in listing order; each    *)
(*            entry is [path, dir, corrupt, size, bytes]                   *)
(*   text     the payload read as text (also the text the remote service   *)
(*            or the Word decoder finds in it)                             *)
(*   decodes  the Word / spreadsheet decoder accepts it                    *)
(*   remote   "ok" or "error": what the remote service answers             *)
(*   runs     the a:t text runs when the payload is parsed as slide XML    *)
(*   sheets   the workbook's sheets, each [name, csv]                      *)
(***************************************************************************)
EXTENDS Integers, Sequences, FiniteSets, TLC

VARIABLES
  apiKey,          \* geminiService.ts:4   TRUE iff process.env.API_KEY is non-empty
  input,           \* the File handed to one processFile call under study
  outcome,         \* its settled promise: [state, ok, text, msg, events]
  files,           \* App.tsx:8   useState<ExtractedFile[]>
  selectedFileId,  \* App.tsx:9   useState<string | null>
  isDragging,      \* App.tsx:10  useState(false)
  subs,            \* one record per addFiles invocation (its loop's position)
  hist,            \* per file id, the statuses setFiles has given it, in order
  doneOrder        \* the ids in the order setFiles made them COMPLETED or ERROR

vars ==
  <<apiKey, input, outcome, files, selectedFileId, isDragging, subs, hist, doneOrder>>

uiVars == <<files, selectedFileId, isDragging, subs, hist, doneOrder>>

-----------------------------------------------------------------------------
(* String helpers (JavaScript String methods used by the code).            *)

\* String.prototype.endsWith
endsWith(s, suf) ==
  /\ Len(s) >= Len(suf)
  /\ SubSeq(s, Len(s) - Len(suf) + 1, Len(s)) = suf

CharAt(s, i) == SubSeq(s, i, i)

\* String.prototype.substring on 1-based inclusive positions, clamped to the string
Slice(s, a, b) ==
  LET lo == IF a < 1 THEN 1 ELSE a
      hi == IF b > Len(s) THEN Len(s) ELSE b
  IN  IF lo > hi THEN "" ELSE SubSeq(s, lo, hi)

\* String.prototype.includes
Contains(s, sub) ==
  \E i \in 1..(Len(s) - Len(sub) + 1) : SubSeq(s, i, i + Len(sub) - 1) = sub

\* Position of the first occurrence of sub in s at or after position from, 0 if none
\* (String.prototype.indexOf, 1-based).
IndexOfFrom(s, sub, from) ==
  LET hits == {i \in from..(Len(s) - Len(sub) + 1) : SubSeq(s, i, i + Len(sub) - 1) = sub}
  IN  IF hits = {} THEN 0 ELSE CHOOSE i \in hits : \A j \in hits : i <= j

IndexOf(s, sub) == IndexOfFrom(s, sub, 1)

UpperChars == "ABCDEFGHIJKLMNOPQRSTUVWXYZ"
LowerChars == "abcdefghijklmnopqrstuvwxyz"

LowerChar(c) ==
  LET p == IndexOf(UpperChars, c)
  IN  IF p = 0 THEN c ELSE CharAt(LowerChars, p)

RECURSIVE toLowerCase(_)
toLowerCase(s) ==
  IF s = "" THEN "" ELSE LowerChar(CharAt(s, 1)) \o toLowerCase(Tail(s))

\* filename.split('.').pop(): the part after the last dot, the whole name if none
SplitDotPop(s) ==
  LET dots == {i \in 1..Len(s) : CharAt(s, i) = "."}
      last == IF dots = {} THEN 0 ELSE CHOOSE i \in dots : \A j \in dots : j <= i
  IN  SubSeq(s, last + 1, Len(s))

Digits == "0123456789"

IsDigit(c) == Len(c) = 1 /\ IndexOf(Digits, c) > 0

AllDigits(s) == s # "" /\ \A i \in 1..Len(s) : IsDigit(CharAt(s, i))

\* parseInt of a string of decimal digits
RECURSIVE ParseDigits(_)
ParseDigits(s) ==
  IF s = "" THEN 0
  ELSE ParseDigits(SubSeq(s, 1, Len(s) - 1)) * 10 + (IndexOf(Digits, CharAt(s, Len(s))) - 1)

-----------------------------------------------------------------------------
(* geminiService.ts: media types, classification                           *)

\* The inlineData request-size ceiling of processFile (20 * 1024 * 1024 bytes).
MaxInlineBytes == 20 * 1024 * 1024

GeminiSupported ==
  { "application/pdf",
    "image/png", "image/jpeg", "image/webp", "image/heic", "image/heif",
    "audio/mpeg", "audio/mp3", "audio/wav", "audio/aac", "audio/flac", "audio/x-m4a",
    "video/mp4", "video/mpeg", "video/mov", "video/avi", "video/x-flv", "video/mpg",
    "video/webm", "video/wmv", "video/3gpp" }

isGeminiSupported_NoVideo(mimeType) ==
  mimeType \in {t \in GeminiSupported : SubSeq(t, 1, 6) # "video/"}

isGeminiSupported(mimeType) == mimeType \in GeminiSupported

DocxType == "application/vnd.openxmlformats-officedocument.wordprocessingml.document"
XlsxType == "application/vnd.openxmlformats-officedocument.spreadsheetml.sheet"
PptxType == "application/vnd.openxmlformats-officedocument.presentationml.presentation"

getMimeFromExt(ext) ==
  CASE ext = "png"  -> "image/png"
    [] ext = "jpg"  -> "image/jpeg"
    [] ext = "pdf"  -> "application/pdf"
    [] ext = "txt"  -> "text/plain"
    [] ext = "xml"  -> "text/xml"
    [] ext = "json" -> "application/json"
    [] OTHER        -> "application/octet-stream"

\* The branch of processFile's if-chain that a (declared type, name) pair takes.
classify_RemoteFirst(mimeType, name) ==
  IF isGeminiSupported(mimeType) THEN "RemoteMultimodal"
  ELSE IF mimeType = "application/zip" \/ endsWith(name, ".zip") THEN "Archive"
  ELSE IF mimeType = DocxType \/ endsWith(name, ".docx") THEN "WordDocument"
  ELSE IF mimeType = XlsxType \/ endsWith(name, ".xlsx") THEN "Spreadsheet"
  ELSE IF mimeType = PptxType \/ endsWith(name, ".pptx") THEN "PresentationPackage"
  ELSE IF \/ mimeType \in {"text/plain", "text/html", "application/rtf"}
          \/ endsWith(name, ".txt") \/ endsWith(name, ".md") THEN "PlainOrHtmlText"
  ELSE IF mimeType = "application/epub+zip" \/ endsWith(name, ".epub") THEN "ArchiveLikeBook"
  ELSE "Unsupported"

\* The same chain with the extension tests dropped (declared type only).
classify_TypeOnly(mimeType, name) ==
  IF mimeType = "application/zip" THEN "Archive"
  ELSE IF isGeminiSupported(mimeType) THEN "RemoteMultimodal"
  ELSE IF mimeType = DocxType THEN "WordDocument"
  ELSE IF mimeType = XlsxType THEN "Spreadsheet"
  ELSE IF mimeType = PptxType THEN "PresentationPackage"
  ELSE IF mimeType \in {"text/plain", "text/html", "application/rtf"} THEN "PlainOrHtmlText"
  ELSE IF mimeType = "application/epub+zip" THEN "ArchiveLikeBook"
  ELSE "Unsupported"

classify(mimeType, name) ==
  IF mimeType = "application/zip" \/ endsWith(name, ".zip") THEN "Archive"
  ELSE IF isGeminiSupported(mimeType) THEN "RemoteMultimodal"
  ELSE IF mimeType = DocxType \/ endsWith(name, ".docx") THEN "WordDocument"
  ELSE IF mimeType = XlsxType \/ endsWith(name, ".xlsx") THEN "Spreadsheet"
  ELSE IF mimeType = PptxType \/ endsWith(name, ".pptx") THEN "PresentationPackage"
  ELSE IF \/ mimeType \in {"text/plain", "text/html", "application/rtf"}
          \/ endsWith(name, ".txt") \/ endsWith(name, ".md") THEN "PlainOrHtmlText"
  ELSE IF mimeType = "application/epub+zip" \/ endsWith(name, ".epub") THEN "ArchiveLikeBook"
  ELSE "Unsupported"

-----------------------------------------------------------------------------
(* Outcomes and the event log of one processFile call.                     *)
(* An event is [op, name, type, size, tag] for the File it concerns:       *)
(*   dispatch  the branch of processFile taken (tag: the strategy)         *)
(*   read      the File's bytes are read (tag: base64, arrayBuffer, text,  *)
(*             zip)                                                        *)
(*   extract   extractWithGemini is entered                                *)
(*   request   ai.models.generateContent is issued                         *)

Ev(op, f, tag) ==
  [op |-> op, name |-> f.name, type |-> f.type, size |-> f.size, tag |-> tag]

\* A resolved promise / a rejected promise (msg is error.message).
Ok(text, events) == [ok |-> TRUE, text |-> text, msg |-> "", events |-> events]
Fail(msg, events) == [ok |-> FALSE, text |-> "", msg |-> msg, events |-> events]

SizeError ==
  "File qua lon (>20MB) de xu ly truc tiep tren trinh duyet. Vui long nen hoac cat nho file."
MissingKeyError == "API Key is missing. Please checking your environment configuration."
EmptyResponseError == "Gemini returned an empty response."
\* Messages of errors thrown by the libraries and the service (not literals of src/).
ServiceError == "503 Service Unavailable"
ZipOpenError == "Can't find end of central directory : is this a zip file ?"
ZipEntryError == "Corrupted zip : CRC32 mismatch"
DocxError == "Could not find main document part."
XlsxError == "Unsupported file"
PptxError == "Loi doc file PPTX."
EmptySlide == "(Trang trong)\n"
NoSlideText == "(Khong tim thay noi dung van ban trong slide)"

\* The error without the declared type.
UnsupportedError_NoType(mimeType) == "Dinh dang file khong duoc ho tro"

UnsupportedError(mimeType) == "Dinh dang file khong duoc ho tro: " \o mimeType

\* catch (error) { throw new Error(`Loi trich xuat AI: ${error.message || "Unknown error"}`) }
WrapAI(msg) == "Loi trich xuat AI: " \o (IF msg = "" THEN "Unknown error" ELSE msg)

\* The adapter with a second attempt after a transport/service error.
extractWithGemini_Retry(f) ==
  IF ~apiKey THEN Fail(WrapAI(MissingKeyError), <<Ev("extract", f, "")>>)
  ELSE IF f.bytes.remote = "error"
       THEN Fail(WrapAI(ServiceError),
                 <<Ev("extract", f, ""), Ev("request", f, ""), Ev("request", f, "")>>)
  ELSE IF f.bytes.text = ""
       THEN Fail(WrapAI(EmptyResponseError), <<Ev("extract", f, ""), Ev("request", f, "")>>)
  ELSE Ok(f.bytes.text, <<Ev("extract", f, ""), Ev("request", f, "")>>)

\* The adapter without its credential check: the request goes out with an empty
\* key and the service refuses it.
extractWithGemini_NoKeyCheck(f) ==
  IF ~apiKey \/ f.bytes.remote = "error"
  THEN Fail(WrapAI(ServiceError), <<Ev("extract", f, ""), Ev("request", f, "")>>)
  ELSE IF f.bytes.text = ""
       THEN Fail(WrapAI(EmptyResponseError), <<Ev("extract", f, ""), Ev("request", f, "")>>)
  ELSE Ok(f.bytes.text, <<Ev("extract", f, ""), Ev("request", f, "")>>)

\* extractWithGemini(fileBase64, mimeType), f carrying both.
extractWithGemini(f) ==
  IF ~apiKey THEN Fail(WrapAI(MissingKeyError), <<Ev("extract", f, "")>>)
  ELSE IF f.bytes.remote = "error"
       THEN Fail(WrapAI(ServiceError), <<Ev("extract", f, ""), Ev("request", f, "")>>)
  ELSE IF f.bytes.text = ""
       THEN Fail(WrapAI(EmptyResponseError), <<Ev("extract", f, ""), Ev("request", f, "")>>)
  ELSE Ok(f.bytes.text, <<Ev("extract", f, ""), Ev("request", f, "")>>)

\* r with the given events put before its own.
After(events, r) == [r EXCEPT !.events = events \o @]

\* processFile, branch 2: the size check, the base64 read, the remote call.
RemoteBranch_SizeGE(f) ==
  IF f.size >= MaxInlineBytes THEN Fail(SizeError, <<>>)
  ELSE After(<<Ev("read", f, "base64")>>, extractWithGemini(f))

RemoteBranch(f) ==
  IF f.size > MaxInlineBytes THEN Fail(SizeError, <<>>)
  ELSE After(<<Ev("read", f, "base64")>>, extractWithGemini(f))

\* processFile, branch 3a: mammoth.extractRawText
WordBranch(f) ==
  IF f.bytes.decodes THEN Ok(f.bytes.text, <<Ev("read", f, "arrayBuffer")>>)
  ELSE Fail(DocxError, <<Ev("read", f, "arrayBuffer")>>)

RECURSIVE SheetsText(_)
SheetsText(sheets) ==
  IF sheets = <<>> THEN ""
  ELSE "--- Sheet: " \o Head(sheets).name \o " ---\n" \o Head(sheets).csv \o "\n\n"
       \o SheetsText(Tail(sheets))

\* processFile, branch 3b: XLSX.read and the per-sheet CSV rendering
SpreadsheetBranch(f) ==
  IF f.bytes.decodes THEN Ok(SheetsText(f.bytes.sheets), <<Ev("read", f, "arrayBuffer")>>)
  ELSE Fail(XlsxError, <<Ev("read", f, "arrayBuffer")>>)

\* doc.body.textContent of the text parsed as HTML, for text whose only markup is
\* tags: everything from a "<" to the next ">" is dropped.
RECURSIVE StripTags(_)
StripTags(s) ==
  LET lt == IndexOf(s, "<")
      gt == IF lt = 0 THEN 0 ELSE IndexOfFrom(s, ">", lt)
  IN  IF lt = 0 \/ gt = 0 THEN s
      ELSE SubSeq(s, 1, lt - 1) \o StripTags(SubSeq(s, gt + 1, Len(s)))

\* processFile, branch 4
TextBranch(f) ==
  Ok(IF f.type = "text/html" THEN StripTags(f.bytes.text) ELSE f.bytes.text,
     <<Ev("read", f, "text")>>)

-----------------------------------------------------------------------------
(* Containers: processZipFile, processPptxAsZip                            *)

\* Stable insertion sort of a sequence of [k, v] records by k ascending
\* (Array.prototype.sort with the comparator numA - numB).
RECURSIVE InsertByKey(_, _)
InsertByKey(e, s) ==
  IF s = <<>> THEN <<e>>
  ELSE IF e.k < Head(s).k THEN <<e>> \o s
  ELSE <<Head(s)>> \o InsertByKey(e, Tail(s))

RECURSIVE SortByKey(_)
SortByKey(s) ==
  IF s = <<>> THEN <<>>
  ELSE InsertByKey(s[Len(s)], SortByKey(SubSeq(s, 1, Len(s) - 1)))

Values(s) == [i \in 1..Len(s) |-> s[i].v]

\* A property name that is a canonical array index ("0", "7", "42"; not "07").
\* Names of ten and more digits are outside the model's inputs.
IsArrayIndex(p) ==
  /\ AllDigits(p)
  /\ Len(p) <= 9
  /\ (Len(p) = 1 \/ CharAt(p, 1) # "0")

\* Object.keys(contents.files): contents.files is a plain object keyed by entry
\* path, filled in listing order. Its own keys enumerate with the array-index keys
\* first, in ascending numeric order, and then the other keys in insertion order.
ObjectKeys(entries) ==
  LET idx == SelectSeq(entries, LAMBDA e : IsArrayIndex(e.path))
      str == SelectSeq(entries, LAMBDA e : ~IsArrayIndex(e.path))
  IN  Values(SortByKey([i \in 1..Len(idx) |-> [k |-> ParseDigits(idx[i].path), v |-> idx[i]]]))
      \o str

\* `${e}` for a caught Error
ErrString(msg) == IF msg = "" THEN "Error" ELSE "Error: " \o msg

ArchiveHeader(name) == "--- ARCHIVE: " \o name \o " ---\n"
FileHeader(path) == "\n--- FILE: " \o path \o " ---\n"
Placeholder(msg) == "(Khong the trich xuat file nay trong ZIP: " \o ErrString(msg) \o ")\n"

\* new File([fileData], filename, { type: getMimeFromExt(ext || '') })
SubFile(e) ==
  [name |-> e.path,
   type |-> getMimeFromExt(toLowerCase(SplitDotPop(e.path))),
   size |-> e.size,
   bytes |-> e.bytes]

\* /ppt\/slides\/slide\d+\.xml/ matches somewhere in path
SlideAt(s, i, prefix) ==
  /\ Slice(s, i, i + Len(prefix) - 1) = prefix
  /\ \E n \in 1..Len(s) :
       /\ AllDigits(Slice(s, i + Len(prefix), i + Len(prefix) + n - 1))
       /\ Slice(s, i + Len(prefix) + n, i + Len(prefix) + n + 3) = ".xml"

IsSlidePath(path) == \E i \in 1..Len(path) : SlideAt(path, i, "ppt/slides/slide")

\* parseInt(a.match(/slide(\d+)\.xml/)?.[1] || "0"): the leftmost match's digits
SlideNumber(path) ==
  LET at == {i \in 1..Len(path) : SlideAt(path, i, "slide")}
  IN  IF at = {} THEN 0
      ELSE LET i == CHOOSE x \in at : \A y \in at : x <= y
               n == CHOOSE m \in 1..Len(path) :
                      /\ AllDigits(Slice(path, i + 5, i + 4 + m))
                      /\ Slice(path, i + 5 + m, i + 8 + m) = ".xml"
           IN  ParseDigits(Slice(path, i + 5, i + 4 + n))

Whitespace == {" ", "\n", "\t", "\r"}

\* !slideText.trim()
IsBlank(s) == \A i \in 1..Len(s) : CharAt(s, i) \in Whitespace

RECURSIVE JoinRuns(_)
JoinRuns(runs) ==
  IF runs = <<>> THEN "" ELSE Head(runs) \o " " \o JoinRuns(Tail(runs))

\* The slide's text whatever it is, without the blank-page marker.
SlideText_NoMarker(e) == JoinRuns(e.bytes.runs) \o "\n"

SlideText(e) ==
  LET slideText == JoinRuns(e.bytes.runs)
  IN  IF IsBlank(slideText) THEN EmptySlide ELSE slideText \o "\n"

RECURSIVE SlidesText(_)
SlidesText(slides) ==
  IF slides = <<>> THEN "" ELSE SlideText(Head(slides)) \o SlidesText(Tail(slides))

\* The slide entries without the sort: in the order Object.keys lists them.
SlideFiles_Unsorted(entries) ==
  SelectSeq(ObjectKeys(entries), LAMBDA e : IsSlidePath(e.path))

\* The slide entries in the order the loop visits them.
SlideFiles(entries) ==
  LET keys == SelectSeq(ObjectKeys(entries), LAMBDA e : IsSlidePath(e.path))
  IN  Values(SortByKey([i \in 1..Len(keys) |-> [k |-> SlideNumber(keys[i].path), v |-> keys[i]]]))

\* The body of processPptxAsZip once the container is open, slides being slideFiles
\* after the sort.
PptxOutcome(file, slides) ==
  IF \E i \in 1..Len(slides) : slides[i].corrupt
  THEN Fail(PptxError,
            <<Ev("read", file, "zip")>>
            \o [i \in 1..Len(slides) |-> Ev("read", SubFile(slides[i]), "string")])
  ELSE Ok(IF SlidesText(slides) = "" THEN NoSlideText ELSE SlidesText(slides),
          <<Ev("read", file, "zip")>>
          \o [i \in 1..Len(slides) |-> Ev("read", SubFile(slides[i]), "string")])

processPptxAsZip(file) ==
  IF ~file.bytes.zip THEN Fail(PptxError, <<Ev("read", file, "zip")>>)
  ELSE PptxOutcome(file, SlideFiles(file.bytes.entries))

RECURSIVE processFile(_), ZipLoop(_, _)

\* The try block of the loop body reading the entry as text, not dispatching it.
EntryOutcome_Flat(e) ==
  IF e.corrupt THEN Fail(ZipEntryError, <<>>) ELSE TextBranch(SubFile(e))

\* The try block of the loop body for entry e: decompress the entry, wrap it in a
\* File typed from its extension, dispatch it.
EntryOutcome(e) ==
  IF e.corrupt THEN Fail(ZipEntryError, <<>>) ELSE processFile(SubFile(e))

\* combinedText after the loop body for entry e, r being the try block's outcome
\* (the catch turns a failure into the placeholder line).
AppendBlock(acc, e, r) ==
  [text |-> acc.text \o FileHeader(e.path) \o (IF r.ok THEN r.text ELSE Placeholder(r.msg)),
   events |-> acc.events \o <<Ev("read", SubFile(e), "blob")>> \o r.events]

\* One iteration of the for loop of processZipFile.
EntryStep(acc, e) == IF e.dir THEN acc ELSE AppendBlock(acc, e, EntryOutcome(e))

\* The loop with the try/catch around the whole loop: the first failing entry
\* fails the archive.
ZipLoop_AbortOnError(keys, acc) ==
  IF keys = <<>> THEN Ok(acc.text, acc.events)
  ELSE IF ~Head(keys).dir /\ ~EntryOutcome(Head(keys)).ok
       THEN Fail(EntryOutcome(Head(keys)).msg, acc.events)
  ELSE ZipLoop(Tail(keys), EntryStep(acc, Head(keys)))

\* The for loop of processZipFile over the keys left, acc being
\* [text |-> combinedText, events |-> the events so far].
ZipLoop(keys, acc) ==
  IF keys = <<>> THEN Ok(acc.text, acc.events)
  ELSE ZipLoop(Tail(keys), EntryStep(acc, Head(keys)))

\* loadAsync inside a try whose catch returns the header alone.
processZipFile_HeaderOnOpenError(file) ==
  IF ~file.bytes.zip THEN Ok(ArchiveHeader(file.name), <<Ev("read", file, "zip")>>)
  ELSE ZipLoop(ObjectKeys(file.bytes.entries),
               [text |-> ArchiveHeader(file.name), events |-> <<Ev("read", file, "zip")>>])

\* processZipFile(file): zip.loadAsync(file) is outside any try.
processZipFile(file) ==
  IF ~file.bytes.zip THEN Fail(ZipOpenError, <<Ev("read", file, "zip")>>)
  ELSE ZipLoop(ObjectKeys(file.bytes.entries),
               [text |-> ArchiveHeader(file.name), events |-> <<Ev("read", file, "zip")>>])

\* The strategy's code, run on the file.
RunStrategy(tag, file) ==
  CASE tag \in {"Archive", "ArchiveLikeBook"} -> processZipFile(file)
    [] tag = "RemoteMultimodal"    -> RemoteBranch(file)
    [] tag = "WordDocument"        -> WordBranch(file)
    [] tag = "Spreadsheet"         -> SpreadsheetBranch(file)
    [] tag = "PresentationPackage" -> processPptxAsZip(file)
    [] tag = "PlainOrHtmlText"     -> TextBranch(file)
    [] OTHER                       -> Fail(UnsupportedError(file.type), <<>>)

\* processFile reading the head of the File to tell its format before it
\* chooses the branch.
processFile_SniffFirst(file) ==
  After(<<Ev("read", file, "head"), Ev("dispatch", file, classify(file.type, file.name))>>,
        RunStrategy(classify(file.type, file.name), file))

processFile(file) ==
  After(<<Ev("dispatch", file, classify(file.type, file.name))>>,
        RunStrategy(classify(file.type, file.name), file))

\* processFile throws before its first await (no read, no call is started): the
\* promise it returns is already rejected.
RejectsAtOnce(file) ==
  \/ classify(file.type, file.name) = "Unsupported"
  \/ classify(file.type, file.name) = "RemoteMultimodal" /\ file.size > MaxInlineBytes

-----------------------------------------------------------------------------
(* Inputs: the Files the model hands to processFile.                        *)

\* The longest central directory of a generated archive.
MaxEntries == 3

Blob ==
  [zip |-> FALSE, entries |-> <<>>, text |-> "", decodes |-> FALSE,
   remote |-> "error", runs |-> <<>>, sheets |-> <<>>]

TextBytes(t) == [Blob EXCEPT !.text = t]
MediaBytes(t) == [Blob EXCEPT !.text = t, !.remote = "ok"]
ZipBytes(entries) == [Blob EXCEPT !.zip = TRUE, !.entries = entries]

Entry(path, size, bytes) ==
  [path |-> path, dir |-> FALSE, corrupt |-> FALSE, size |-> size, bytes |-> bytes]
DirEntry(path) ==
  [path |-> path, dir |-> TRUE, corrupt |-> FALSE, size |-> 0, bytes |-> Blob]
CorruptEntry(path) ==
  [path |-> path, dir |-> FALSE, corrupt |-> TRUE, size |-> 4, bytes |-> Blob]

\* A payload every reader and decoder accepts, so that each strategy's success is seen.
Generic ==
  [zip |-> TRUE, entries |-> <<Entry("inner.txt", 5, TextBytes("inner"))>>,
   text |-> "hello", decodes |-> TRUE, remote |-> "ok",
   runs |-> <<>>, sheets |-> <<[name |-> "Q1", csv |-> "a,b"]>>]

GridTypes ==
  GeminiSupported \cup
  { "", "application/octet-stream", "application/zip", DocxType, XlsxType, PptxType,
    "text/plain", "text/html", "application/rtf", "application/epub+zip",
    "text/xml", "application/json", "video/quicktime", "application/x-zip-compressed" }

GridNames ==
  { "a.zip", "a.docx", "a.xlsx", "a.pptx", "a.txt", "a.md", "a.epub", "a.png", "a.pdf",
    "a.bin", "a", "a.ZIP", "azip", "a.zip.bak", "a.txt.docx", "a.html" }

GridFiles ==
  { [name |-> n, type |-> t, size |-> 5, bytes |-> Generic] : t \in GridTypes, n \in GridNames }

SizeFiles ==
  { [name |-> n, type |-> t, size |-> sz, bytes |-> b] :
      n \in {"scan.pdf", "scan.txt", "scan"},
      t \in {"application/pdf", "image/png", "video/3gpp"},
      sz \in {0, MaxInlineBytes - 1, MaxInlineBytes, MaxInlineBytes + 1, 2 * MaxInlineBytes},
      b \in {MediaBytes("scanned"), MediaBytes(""), TextBytes("scanned")} }

\* The kinds of entry a generated archive holds at position i (paths are distinct
\* within an archive, as in a JSZip file table):
\*   txt  a text file                      bin  a file no rule matches
\*   crc  an entry whose data is corrupt   dir  a directory marker
\*   pdf  a PDF of exactly the ceiling     big  a PDF one byte over the ceiling
\*   num  a file whose name is a number    zip  a nested archive holding one text file
\*   bad  a ".zip" entry that is no archive
EntryKinds == {"txt", "bin", "crc", "dir", "pdf", "big", "num", "zip", "bad"}

Digit(i) == CharAt(Digits, i + 1)

EntryText(i) == "text" \o Digit(i) \o "\n"
DeepText(i) == "deep" \o Digit(i) \o "\n"

EntryOf(kind, i) ==
  CASE kind = "txt" -> Entry("f" \o Digit(i) \o ".txt", 6, TextBytes(EntryText(i)))
    [] kind = "bin" -> Entry("f" \o Digit(i) \o ".bin", 6, TextBytes(EntryText(i)))
    [] kind = "crc" -> CorruptEntry("f" \o Digit(i) \o ".txt")
    [] kind = "dir" -> DirEntry("d" \o Digit(i) \o "/")
    [] kind = "pdf" -> Entry("f" \o Digit(i) \o ".pdf", MaxInlineBytes, MediaBytes(EntryText(i)))
    [] kind = "big" -> Entry("f" \o Digit(i) \o ".pdf", MaxInlineBytes + 1,
                             MediaBytes(EntryText(i)))
    [] kind = "num" -> Entry(Digit(9 - i), 6, TextBytes(EntryText(i)))
    [] kind = "bad" -> Entry("b" \o Digit(i) \o ".zip", 3, TextBytes("PK?"))
    [] OTHER        -> Entry("n" \o Digit(i) \o ".zip", 40,
                             ZipBytes(<<Entry("deep" \o Digit(i) \o ".txt", 6,
                                              TextBytes(DeepText(i)))>>))

KindSeqs == UNION {[1..n -> EntryKinds] : n \in 0..MaxEntries}

ArchiveOf(kinds) ==
  [name |-> "pack.zip", type |-> "application/zip", size |-> 100,
   bytes |-> ZipBytes([i \in 1..Len(kinds) |-> EntryOf(kinds[i], i)])]

GeneratedArchives == {ArchiveOf(k) : k \in KindSeqs}

SlideBytes(runs) == [Blob EXCEPT !.text = "<p:sld/>", !.runs = runs]

Deck ==
  ZipBytes(<<Entry("ppt/slides/slide2.xml", 9, SlideBytes(<<"two">>)),
             Entry("ppt/slides/slide10.xml", 9, SlideBytes(<<"ten", "x">>)),
             Entry("ppt/presentation.xml", 9, SlideBytes(<<"skip">>)),
             Entry("ppt/slides/slide1.xml", 9, SlideBytes(<<" ", "">>))>>)

\* The slide numbers of the generated decks; slide 3 has only whitespace runs.
SlideNumbers == {1, 2, 3, 10}

SlidePath(n) == "ppt/slides/slide" \o ToString(n) \o ".xml"
SlideRuns(n) == IF n = 3 THEN <<" ", "\t">> ELSE <<"s" \o ToString(n)>>

\* The parts of a presentation package that are no slides.
OtherParts ==
  { "ppt/slideLayouts/slideLayout1.xml", "ppt/slides/_rels/slide1.xml.rels",
    "ppt/notesSlides/notesSlide2.xml" }

DeckEntries ==
  {Entry(SlidePath(n), 9, SlideBytes(SlideRuns(n))) : n \in SlideNumbers}
  \cup {Entry(q, 9, SlideBytes(<<"part">>)) : q \in OtherParts}

\* The presentation packages of at most MaxEntries parts, in every listing order.
GeneratedDecks ==
  { [name |-> "talk.pptx", type |-> PptxType, size |-> 70, bytes |-> ZipBytes(parts)] :
      parts \in {q \in UNION {[1..n -> DeckEntries] : n \in 0..MaxEntries} :
                   \A i, j \in 1..Len(q) : i # j => q[i].path # q[j].path} }

SpecialFiles ==
  { [name |-> "bad.zip", type |-> "application/zip", size |-> 3, bytes |-> TextBytes("PK?")],
    [name |-> "book.epub", type |-> "application/epub+zip", size |-> 50,
     bytes |-> ZipBytes(<<Entry("mimetype", 20, TextBytes("application/epub+zip")),
                          Entry("ch1.txt", 4, TextBytes("one\n"))>>)],
    [name |-> "bad.epub", type |-> "", size |-> 3, bytes |-> TextBytes("??")],
    [name |-> "outer.zip", type |-> "", size |-> 90,
     bytes |-> ZipBytes(<<Entry("broken.zip", 3, TextBytes("PK?")),
                          Entry("INNER.ZIP", 40,
                                ZipBytes(<<Entry("up.txt", 3, TextBytes("up\n"))>>)),
                          Entry("sub/in.zip", 60,
                                ZipBytes(<<Entry("in2.zip", 40,
                                                 ZipBytes(<<Entry("NOTE.TXT", 5,
                                                                  TextBytes("note\n"))>>))>>)),
                          Entry("deck.pptx", 70, Deck),
                          Entry("memo.docx", 30, [Blob EXCEPT !.decodes = TRUE, !.text = "memo"]),
                          Entry("page.html", 12, TextBytes("<b>bold</b>"))>>)],
    [name |-> "scans.zip", type |-> "application/zip", size |-> 80,
     bytes |-> ZipBytes(<<Entry("down.pdf", 8, TextBytes("%PDF")),
                          Entry("mute.png", 8, MediaBytes("")),
                          Entry("fine.pdf", 8, MediaBytes("fine\n"))>>)],
    [name |-> "misc.zip", type |-> "application/zip", size |-> 60,
     bytes |-> ZipBytes(<<Entry("data.json", 2, TextBytes("{}")),
                          Entry("conf.XML", 4, TextBytes("<a/>")),
                          Entry("README", 5, TextBytes("read\n")),
                          Entry("notes.md", 5, TextBytes("note\n"))>>)],
    [name |-> "deck.pptx", type |-> PptxType, size |-> 70, bytes |-> Deck],
    [name |-> "blank.pptx", type |-> PptxType, size |-> 30,
     bytes |-> ZipBytes(<<Entry("ppt/slides/slide1.xml", 9, SlideBytes(<<>>)),
                          Entry("ppt/slides/slide2.xml", 9, SlideBytes(<<" ", "\n">>)),
                          Entry("ppt/slides/slide3.xml", 9, SlideBytes(<<"">>))>>)],
    [name |-> "empty.pptx", type |-> PptxType, size |-> 20, bytes |-> ZipBytes(<<>>)],
    [name |-> "bad.pptx", type |-> "", size |-> 3, bytes |-> TextBytes("??")],
    [name |-> "bad.docx", type |-> DocxType, size |-> 3, bytes |-> TextBytes("??")],
    [name |-> "bad.xlsx", type |-> XlsxType, size |-> 3, bytes |-> TextBytes("??")],
    [name |-> "page.html", type |-> "text/html", size |-> 12,
     bytes |-> TextBytes("<p>Hi <i>there</i></p>")] }

DispatchInputs ==
  GridFiles \cup SizeFiles \cup GeneratedArchives \cup GeneratedDecks \cup SpecialFiles

NoFile == [name |-> "", type |-> "", size |-> 0, bytes |-> Blob]

\* The promise of the call under study: idle (not called), pending, settled.
Idle == [state |-> "idle", ok |-> FALSE, text |-> "", msg |-> "", events |-> <<>>]

Settled(r) ==
  [state |-> "settled", ok |-> r.ok, text |-> r.text, msg |-> r.msg, events |-> r.events]

-----------------------------------------------------------------------------
(* One processFile call, from its invocation to its settled promise.       *)

InitDispatch ==
  /\ apiKey \in BOOLEAN
  /\ input \in DispatchInputs
  /\ outcome = Idle
  /\ files = <<>>
  /\ selectedFileId = 0
  /\ isDragging = FALSE
  /\ subs = <<>>
  /\ hist = <<>>
  /\ doneOrder = <<>>

\* processFile(input) is called and runs to its first await, or throws before it.
CallProcessFile ==
  /\ outcome.state = "idle"
  /\ outcome' = IF RejectsAtOnce(input) THEN Settled(processFile(input))
                ELSE [Idle EXCEPT !.state = "pending"]
  /\ UNCHANGED <<apiKey, input, uiVars>>

\* The awaited reads, decoders and remote call finish; the promise settles.
SettleProcessFile ==
  /\ outcome.state = "pending"
  /\ outcome' = Settled(processFile(input))
  /\ UNCHANGED <<apiKey, input, uiVars>>

NextDispatch == CallProcessFile \/ SettleProcessFile

SpecDispatch == InitDispatch /\ [][NextDispatch]_vars

-----------------------------------------------------------------------------
(* Properties of one processFile call (checked under SpecDispatch).        *)

SettledCall == outcome.state = "settled"

\* The events of the settled call with a given op.
EventsOf(op) == {i \in 1..Len(outcome.events) : outcome.events[i].op = op}

SameFile(e, f) == e.name = f.name /\ e.type = f.type /\ e.size = f.size

\* The strategy the call took for its own File (the first event of every call).
TopTag == outcome.events[1].tag

OpenedArchive ==
  /\ SettledCall
  /\ TopTag \in {"Archive", "ArchiveLikeBook"}
  /\ input.bytes.zip

\* The rules of the classifier as the specification lists them, by rank.
StrategyOfRule ==
  << "Archive", "RemoteMultimodal", "WordDocument", "Spreadsheet",
     "PresentationPackage", "PlainOrHtmlText", "ArchiveLikeBook", "Unsupported" >>

RuleMatches(k, t, n) ==
  CASE k = 1 -> t = "application/zip" \/ endsWith(n, ".zip")
    [] k = 2 -> t \in GeminiSupported
    [] k = 3 -> t = DocxType \/ endsWith(n, ".docx")
    [] k = 4 -> t = XlsxType \/ endsWith(n, ".xlsx")
    [] k = 5 -> t = PptxType \/ endsWith(n, ".pptx")
    [] k = 6 -> \/ t = "text/plain" \/ t = "text/html" \/ t = "application/rtf"
                \/ endsWith(n, ".txt") \/ endsWith(n, ".md")
    [] k = 7 -> t = "application/epub+zip" \/ endsWith(n, ".epub")
    [] OTHER -> TRUE

FirstRule(t, n) ==
  CHOOSE k \in 1..8 : RuleMatches(k, t, n) /\ \A j \in 1..(k - 1) : ~RuleMatches(j, t, n)

\* C1: every processFile call, on the submitted File and on every archive entry,
\* takes exactly one strategy, and it is the strategy of the first rule, in the
\* order Archive, RemoteMultimodal, WordDocument, Spreadsheet, PresentationPackage,
\* PlainOrHtmlText, ArchiveLikeBook, Unsupported, that the (type, name) pair matches.
C1_FirstMatchWins ==
  SettledCall =>
    /\ Cardinality({i \in EventsOf("dispatch") : SameFile(outcome.events[i], input)}) = 1
    /\ outcome.events[1].op = "dispatch" /\ SameFile(outcome.events[1], input)
    /\ \A i \in EventsOf("dispatch") :
         LET e == outcome.events[i]
         IN  e.tag = StrategyOfRule[FirstRule(e.type, e.name)]

\* C1 witness: a File that matches an earlier and a later rule took the earlier one.
C1_Witness ==
  /\ SettledCall
  /\ input.type = XlsxType /\ input.name = "a.txt.docx"
  /\ TopTag = "WordDocument"
  /\ outcome.ok /\ outcome.text = "hello"

\* C2 (as claimed): a File whose declared type is in the remote-supported set is
\* RemoteMultimodal whatever its name.
C2_RemoteWhateverName ==
  (SettledCall /\ input.type \in GeminiSupported) => TopTag = "RemoteMultimodal"

\* C2 (amended): a File whose declared type is in the remote-supported set and whose
\* name does not end in ".zip" is RemoteMultimodal; one whose name ends in ".zip" is
\* Archive.
C2_RemoteUnlessZipName ==
  (SettledCall /\ input.type \in GeminiSupported) =>
    TopTag = (IF endsWith(input.name, ".zip") THEN "Archive" ELSE "RemoteMultimodal")

\* C2 witness: a supported video type under a Word-document name went to the remote
\* extractor.
C2_Witness ==
  /\ SettledCall /\ apiKey
  /\ input.type = "video/3gpp" /\ input.name = "a.docx"
  /\ TopTag = "RemoteMultimodal"
  /\ \E i \in EventsOf("request") : SameFile(outcome.events[i], input)

ExtensionRules ==
  { <<".zip", "Archive">>, <<".docx", "WordDocument">>, <<".xlsx", "Spreadsheet">>,
    <<".pptx", "PresentationPackage">>, <<".txt", "PlainOrHtmlText">>,
    <<".md", "PlainOrHtmlText">>, <<".epub", "ArchiveLikeBook">> }

\* C3: with a declared type of "" or application/octet-stream, a name ending in
\* .zip, .docx, .xlsx, .pptx, .txt, .md, .epub is classified Archive, WordDocument,
\* Spreadsheet, PresentationPackage, PlainOrHtmlText, PlainOrHtmlText,
\* ArchiveLikeBook, at top level and for archive entries alike.
C3_ExtensionRulesReachable ==
  SettledCall =>
    \A i \in EventsOf("dispatch") :
      LET e == outcome.events[i]
      IN  e.type \in {"", "application/octet-stream"} =>
            \A r \in ExtensionRules : endsWith(e.name, r[1]) => e.tag = r[2]

\* C3 witness: an archive entry typed only from its extension (application/
\* octet-stream) was decoded as a Word document.
C3_Witness ==
  /\ SettledCall
  /\ input.name = "outer.zip"
  /\ \E i \in EventsOf("dispatch") :
       /\ outcome.events[i].name = "memo.docx"
       /\ outcome.events[i].type = "application/octet-stream"
       /\ outcome.events[i].tag = "WordDocument"
  /\ Contains(outcome.text, FileHeader("memo.docx") \o "memo")

\* C4: the ceiling is exact and comes before any remote work, at every depth: a
\* remote-eligible File of at most 20*1024*1024 bytes reaches extractWithGemini, and
\* a larger one is never encoded for transport, never reaches extractWithGemini,
\* has no request issued, and fails with the file-too-large error (the call's failure at top
\* level, the entry's placeholder inside an archive).
C4_SizeCeilingExact ==
  SettledCall =>
    /\ \A i \in EventsOf("dispatch") :
         LET e == outcome.events[i]
         IN  e.tag = "RemoteMultimodal" =>
               IF e.size <= MaxInlineBytes
               THEN /\ \E j \in EventsOf("extract") : j > i /\ SameFile(outcome.events[j], e)
                    /\ apiKey =>
                         \E j \in EventsOf("request") : j > i /\ SameFile(outcome.events[j], e)
               ELSE /\ \A j \in 1..Len(outcome.events) :
                         SameFile(outcome.events[j], e) =>
                           /\ outcome.events[j].op \notin {"extract", "request"}
                           /\ outcome.events[j].tag # "base64"
                    /\ IF i = 1 THEN ~outcome.ok /\ outcome.msg = SizeError
                       ELSE Contains(outcome.text, FileHeader(e.name) \o Placeholder(SizeError))
    /\ \A j \in EventsOf("request") : outcome.events[j].size <= MaxInlineBytes

\* C4 witness: one archive holding a PDF of exactly the ceiling, which was sent, and
\* a PDF one byte larger, which was not.
C4_Witness ==
  /\ SettledCall /\ apiKey
  /\ input = ArchiveOf(<<"pdf", "big">>)
  /\ \E j \in EventsOf("request") :
       outcome.events[j].name = "f1.pdf" /\ outcome.events[j].size = 20971520
  /\ ~\E j \in EventsOf("request") : outcome.events[j].name = "f2.pdf"
  /\ Contains(outcome.text, FileHeader("f2.pdf") \o Placeholder(SizeError))

\* What one entry contributes to the combined text.
BlockOf(path, r) == FileHeader(path) \o (IF r.ok THEN r.text ELSE Placeholder(r.msg))

EntryBlock(e) ==
  IF e.corrupt THEN FileHeader(e.path) \o Placeholder(ZipEntryError)
  ELSE BlockOf(e.path, processFile(SubFile(e)))

\* C5: once the container has opened the archive's outcome is a Text, whatever its
\* entries do; a failing entry contributes its header and the placeholder line, and
\* every other non-directory entry its header and its real text.
C5_PerEntryIsolation ==
  OpenedArchive =>
    /\ outcome.ok
    /\ \A i \in 1..Len(input.bytes.entries) :
         LET e == input.bytes.entries[i]
         IN  ~e.dir => Contains(outcome.text, EntryBlock(e))

\* C5 witness: three entries, the second corrupt: the text holds the first and the
\* third entry's content and a placeholder for the second.
C5_Witness ==
  /\ OpenedArchive
  /\ input = ArchiveOf(<<"txt", "crc", "txt">>)
  /\ outcome.ok
  /\ Contains(outcome.text, FileHeader("f1.txt") \o "text1\n")
  /\ Contains(outcome.text, FileHeader("f2.txt") \o Placeholder(ZipEntryError))
  /\ Contains(outcome.text, FileHeader("f3.txt") \o "text3\n")

RECURSIVE BlocksInOrder(_)
BlocksInOrder(entries) ==
  IF entries = <<>> THEN ""
  ELSE (IF Head(entries).dir THEN "" ELSE EntryBlock(Head(entries)))
       \o BlocksInOrder(Tail(entries))

\* C6: the combined text of a generic archive is the archive header followed by the
\* blocks of the non-directory entries in the archive's own listing order.
C6_ListingOrder ==
  OpenedArchive =>
    outcome.text = ArchiveHeader(input.name) \o BlocksInOrder(input.bytes.entries)

-----------------------------------------------------------------------------
(* App.tsx: the file list and the upload queue.                             *)
(*                                                                         *)
(* File ids (Math.random().toString(36).substring(7)) are modelled as      *)
(* fresh: the n-th ExtractedFile ever created has id n, and null is 0.     *)
(* One step of the model is one task of the browser's event loop: a user   *)
(* event handler, or the settling of an awaited processFile promise,       *)
(* together with every continuation that then runs without a further       *)
(* suspension (a processFile that throws before its first await rejects    *)
(* its promise at once, so the loop of addFiles goes on to the next file   *)
(* in the same task).                                                      *)

\* The most Files submitted in one behaviour, over all addFiles invocations.
MaxFiles == 3

\* The Files a user submits: a PDF (sent to the remote service: extracted with the
\* credential, a failure without it) and a file no rule matches (processFile
\* throws before its first await).
UIFiles ==
  { [name |-> "scan.pdf", type |-> "application/pdf", size |-> 9, bytes |-> MediaBytes("scan")],
    [name |-> "blob.bin", type |-> "application/octet-stream", size |-> 7,
     bytes |-> TextBytes("07")] }

\* The batches that may still be submitted.
Batches == UNION {[1..n -> UIFiles] : n \in 1..(MaxFiles - Len(hist))}

\* The component state that the setState updaters thread: st.files, st.sel
\* (selectedFileId), and the two records of what setFiles did.
UIState == [files |-> files, sel |-> selectedFileId, hist |-> hist, done |-> doneOrder]

InList(fs, id) == \E i \in 1..Len(fs) : fs[i].id = id

\* file => ({ id, name, type, size, status: PENDING, content: '' })
NewExtractedFile(id, file) ==
  [id |-> id, name |-> file.name, type |-> file.type, size |-> file.size,
   status |-> "PENDING", content |-> "", errorMessage |-> ""]

\* setFiles(prev => [...prev, ...newExtractedFiles])
AppendFiles(st, newFiles) ==
  LET n == Len(st.hist)
      created == [i \in 1..Len(newFiles) |-> NewExtractedFile(n + i, newFiles[i])]
  IN  [st EXCEPT !.files = @ \o created,
                 !.hist = @ \o [i \in 1..Len(newFiles) |-> <<"PENDING">>]]

\* The PROCESSING update applied to every file still PENDING as well.
MarkProcessing_AllPending(st, id) ==
  LET hit(f) == f.id = id \/ f.status = "PENDING"
  IN  [st EXCEPT
         !.files = [i \in 1..Len(@) |->
                      IF hit(@[i]) THEN [@[i] EXCEPT !.status = "PROCESSING"] ELSE @[i]],
         !.hist = [j \in 1..Len(@) |->
                     IF \E i \in 1..Len(st.files) : st.files[i].id = j /\ hit(st.files[i])
                     THEN Append(@[j], "PROCESSING") ELSE @[j]]]

\* The PROCESSING update left out.
MarkProcessing_Skip(st, id) == st

\* setFiles(prev => prev.map(f => f.id === id ? { ...f, status: PROCESSING } : f))
MarkProcessing(st, id) ==
  [st EXCEPT
     !.files = [i \in 1..Len(@) |->
                  IF @[i].id = id THEN [@[i] EXCEPT !.status = "PROCESSING"] ELSE @[i]],
     !.hist = IF InList(st.files, id) THEN [@ EXCEPT ![id] = Append(@, "PROCESSING")] ELSE @]

\* The COMPLETED update as an upsert: a file no longer in the list is put back.
MarkCompleted_Upsert(st, id, extractedText) ==
  [st EXCEPT
     !.files = IF InList(@, id)
               THEN [i \in 1..Len(@) |->
                       IF @[i].id = id
                       THEN [@[i] EXCEPT !.status = "COMPLETED", !.content = extractedText]
                       ELSE @[i]]
               ELSE Append(@, [id |-> id, name |-> "", type |-> "", size |-> 0,
                               status |-> "COMPLETED", content |-> extractedText,
                               errorMessage |-> ""]),
     !.hist = IF InList(st.files, id) THEN [@ EXCEPT ![id] = Append(@, "COMPLETED")] ELSE @,
     !.done = IF InList(st.files, id) THEN Append(@, id) ELSE @,
     !.sel = IF @ # 0 THEN @ ELSE id]

\* setFiles(... COMPLETED, content: extractedText ...); setSelectedFileId(prev => prev ? prev : id)
MarkCompleted(st, id, extractedText) ==
  [st EXCEPT
     !.files = [i \in 1..Len(@) |->
                  IF @[i].id = id
                  THEN [@[i] EXCEPT !.status = "COMPLETED", !.content = extractedText]
                  ELSE @[i]],
     !.hist = IF InList(st.files, id) THEN [@ EXCEPT ![id] = Append(@, "COMPLETED")] ELSE @,
     !.done = IF InList(st.files, id) THEN Append(@, id) ELSE @,
     !.sel = IF @ # 0 THEN @ ELSE id]

\* setFiles(... ERROR, errorMessage: error.message || "Unknown error" ...)
MarkError(st, id, msg) ==
  [st EXCEPT
     !.files = [i \in 1..Len(@) |->
                  IF @[i].id = id
                  THEN [@[i] EXCEPT !.status = "ERROR",
                                    !.errorMessage = IF msg = "" THEN "Unknown error" ELSE msg]
                  ELSE @[i]],
     !.hist = IF InList(st.files, id) THEN [@ EXCEPT ![id] = Append(@, "ERROR")] ELSE @,
     !.done = IF InList(st.files, id) THEN Append(@, id) ELSE @]

\* The try/catch of processSingleFile once processFile(file) has settled with r.
Deliver(st, id, r) ==
  IF r.ok THEN MarkCompleted(st, id, r.text) ELSE MarkError(st, id, r.msg)

\* The for loop of addFiles from index sub.i on, up to its next suspension:
\* processSingleFile marks the file PROCESSING and calls processFile; a call that
\* throws at once is delivered and the loop goes on; otherwise the loop awaits.
\* The result is [st, sub].
RECURSIVE RunQueue(_, _)

\* The loop with the failure of a file ending the loop: the files after it are
\* never started.
RunQueue_AbortOnError(st, sub) ==
  IF sub.i > Len(sub.ids) THEN [st |-> st, sub |-> [sub EXCEPT !.pc = "done"]]
  ELSE IF RejectsAtOnce(sub.orig[sub.i])
       THEN [st |-> Deliver(MarkProcessing(st, sub.ids[sub.i]), sub.ids[sub.i],
                            processFile(sub.orig[sub.i])),
             sub |-> [sub EXCEPT !.i = Len(sub.ids) + 1, !.pc = "done"]]
  ELSE [st |-> MarkProcessing(st, sub.ids[sub.i]), sub |-> [sub EXCEPT !.pc = "awaiting"]]

RunQueue(st, sub) ==
  IF sub.i > Len(sub.ids) THEN [st |-> st, sub |-> [sub EXCEPT !.pc = "done"]]
  ELSE IF RejectsAtOnce(sub.orig[sub.i])
       THEN RunQueue(Deliver(MarkProcessing(st, sub.ids[sub.i]), sub.ids[sub.i],
                             processFile(sub.orig[sub.i])),
                     [sub EXCEPT !.i = @ + 1])
  ELSE [st |-> MarkProcessing(st, sub.ids[sub.i]), sub |-> [sub EXCEPT !.pc = "awaiting"]]

\* The loop state of a new addFiles invocation.
NewSubmission(newFiles) ==
  [ids |-> [i \in 1..Len(newFiles) |-> Len(hist) + i], orig |-> newFiles,
   i |-> 1, pc |-> "start"]

\* The component state and the loop states after a task that ran the loop of
\* submission s (a new one when s = Len(subs) + 1) up to run.
Commit(s, run) ==
  /\ files' = run.st.files
  /\ selectedFileId' = run.st.sel
  /\ hist' = run.st.hist
  /\ doneOrder' = run.st.done
  /\ subs' = [i \in 1..(IF s > Len(subs) THEN s ELSE Len(subs)) |->
                IF i = s THEN run.sub ELSE subs[i]]

\* addFiles(newFiles), up to its first suspension.
addFiles(newFiles) ==
  Commit(Len(subs) + 1, RunQueue(AppendFiles(UIState, newFiles), NewSubmission(newFiles)))

InitUI ==
  /\ apiKey \in BOOLEAN
  /\ input = NoFile
  /\ outcome = Idle
  /\ files = <<>>
  /\ selectedFileId = 0
  /\ isDragging = FALSE
  /\ subs = <<>>
  /\ hist = <<>>
  /\ doneOrder = <<>>

\* The user picks files with the file input (always on the page).
HandleFileSelect ==
  /\ \E newFiles \in Batches : addFiles(newFiles)
  /\ UNCHANGED <<apiKey, input, outcome, isDragging>>

\* The drop zone is rendered only while the list is empty.
HandleDragOver ==
  /\ Len(files) = 0
  /\ isDragging' = TRUE
  /\ UNCHANGED <<apiKey, input, outcome, files, selectedFileId, subs, hist, doneOrder>>

HandleDragLeave ==
  /\ Len(files) = 0
  /\ isDragging' = FALSE
  /\ UNCHANGED <<apiKey, input, outcome, files, selectedFileId, subs, hist, doneOrder>>

HandleDrop ==
  /\ Len(files) = 0
  /\ isDragging' = FALSE
  /\ \E newFiles \in Batches : addFiles(newFiles)
  /\ UNCHANGED <<apiKey, input, outcome>>

\* The processFile call that submission s awaits settles; processSingleFile
\* delivers the outcome and the loop of addFiles runs on.
ResumeSubmission(s) ==
  /\ subs[s].pc = "awaiting"
  /\ \E r \in {processFile(subs[s].orig[subs[s].i])} :
       \E run \in {RunQueue(Deliver(UIState, subs[s].ids[subs[s].i], r),
                            [subs[s] EXCEPT !.i = @ + 1])} :
         Commit(s, run)
  /\ UNCHANGED <<apiKey, input, outcome, isDragging>>

\* removeFile(e, id): the X button of a list item
RemoveFile(id) ==
  /\ InList(files, id)
  /\ files' = SelectSeq(files, LAMBDA f : f.id # id)
  /\ selectedFileId' = IF selectedFileId = id THEN 0 ELSE selectedFileId
  /\ UNCHANGED <<apiKey, input, outcome, isDragging, subs, hist, doneOrder>>

\* onClick={() => setSelectedFileId(file.id)} of a list item
SelectFile(id) ==
  /\ InList(files, id)
  /\ selectedFileId' = id
  /\ UNCHANGED <<apiKey, input, outcome, files, isDragging, subs, hist, doneOrder>>

Next ==
  \/ HandleFileSelect
  \/ HandleDragOver
  \/ HandleDragLeave
  \/ HandleDrop
  \/ \E s \in 1..Len(subs) : ResumeSubmission(s)
  \/ \E id \in 1..Len(hist) : RemoveFile(id)
  \/ \E id \in 1..Len(hist) : SelectFile(id)

Spec == InitUI /\ [][Next]_vars

\* The settling of the call that submission s awaits, for any s there may be.
Settle(s) == s \in 1..Len(subs) /\ ResumeSubmission(s)

\* Every extraction call terminates: an awaited processFile promise settles, and
\* the event loop then runs the continuation of the submission that awaits it.
SpecLive == Spec /\ \A s \in 1..MaxFiles : WF_vars(Settle(s))

-----------------------------------------------------------------------------
(* Properties of the upload queue (checked under Spec).                    *)

Range(seq) == {seq[i] : i \in 1..Len(seq)}

IsPrefix(a, b) == Len(a) <= Len(b) /\ SubSeq(b, 1, Len(a)) = a

Terminal(id) == "COMPLETED" \in Range(hist[id]) \/ "ERROR" \in Range(hist[id])

\* The File submitted under a given id.
OrigOf(id) ==
  LET s == CHOOSE x \in 1..Len(subs) : id \in Range(subs[x].ids)
      k == CHOOSE y \in 1..Len(subs[s].ids) : subs[s].ids[y] = id
  IN  subs[s].orig[k]

StatusPaths ==
  { <<"PENDING", "PROCESSING", "COMPLETED">>, <<"PENDING", "PROCESSING", "ERROR">> }

\* What a list item shows for the outcome r of its extraction.
ShowsOutcome(f, r) ==
  CASE f.status = "COMPLETED" -> r.ok /\ f.content = r.text /\ f.errorMessage = ""
    [] f.status = "ERROR"     -> ~r.ok /\ f.errorMessage = r.msg /\ r.msg # "" /\ f.content = ""
    [] OTHER                  -> f.content = "" /\ f.errorMessage = ""

\* C8: the statuses setFiles gives a file are a prefix of PENDING, PROCESSING,
\* COMPLETED or of PENDING, PROCESSING, ERROR, starting with PENDING; a listed file
\* shows the last of them, with the extracted content when COMPLETED and the error
\* message when ERROR; no file is ever IDLE or leaves PENDING for anything but
\* PROCESSING.
C8_StatusSequence ==
  /\ \A id \in 1..Len(hist) :
       hist[id] # <<>> /\ \E p \in StatusPaths : IsPrefix(hist[id], p)
  /\ \A i \in 1..Len(files) :
       /\ files[i].status = hist[files[i].id][Len(hist[files[i].id])]
       /\ ShowsOutcome(files[i], processFile(OrigOf(files[i].id)))

\* C8 witness: the list holds a file that went PENDING, PROCESSING, COMPLETED and
\* shows its text, and one that went PENDING, PROCESSING, ERROR.
C8_Witness ==
  /\ \E i \in 1..Len(files) :
       /\ hist[files[i].id] = <<"PENDING", "PROCESSING", "COMPLETED">>
       /\ files[i].status = "COMPLETED" /\ files[i].content = "scan"
  /\ \E i \in 1..Len(files) :
       /\ hist[files[i].id] = <<"PENDING", "PROCESSING", "ERROR">>
       /\ files[i].status = "ERROR"

\* C9 (as claimed): within one submission, the file at position k+1 is made
\* PROCESSING only after the file at position k has been made COMPLETED or ERROR.
C9_NextAfterOutcome ==
  \A s \in 1..Len(subs) : \A k \in 1..(Len(subs[s].ids) - 1) :
    "PROCESSING" \in Range(hist[subs[s].ids[k + 1]]) => Terminal(subs[s].ids[k])

\* C9 (amended): within one submission, the file at position k+1 is made PROCESSING
\* only after the extraction call on the file at position k has returned, and then
\* the file at position k is COMPLETED or ERROR unless it was removed from the list.
C9_NextAfterCallReturned ==
  \A s \in 1..Len(subs) : \A k \in 1..(Len(subs[s].ids) - 1) :
    "PROCESSING" \in Range(hist[subs[s].ids[k + 1]]) =>
      /\ subs[s].i > k
      /\ Terminal(subs[s].ids[k]) \/ ~InList(files, subs[s].ids[k])

\* C9 witness: the second file of a submission is being extracted, the first one
\* has its text and both are in the list.
C9_Witness ==
  \E s \in 1..Len(subs) :
    /\ Len(subs[s].ids) >= 2
    /\ subs[s].pc = "awaiting" /\ subs[s].i = 2
    /\ hist[subs[s].ids[1]] = <<"PENDING", "PROCESSING", "COMPLETED">>
    /\ hist[subs[s].ids[2]] = <<"PENDING", "PROCESSING">>
    /\ InList(files, subs[s].ids[1]) /\ InList(files, subs[s].ids[2])

PositionIn(seq, x) == CHOOSE i \in 1..Len(seq) : seq[i] = x

\* C10: ids being given in submission order, a file submitted before another one
\* gets its outcome (COMPLETED or ERROR) before the other one does.
C10_OutcomesInSubmissionOrder ==
  \A a \in 1..Len(hist) : \A b \in (a + 1)..Len(hist) :
    b \in Range(doneOrder) =>
      /\ a \in Range(doneOrder)
      /\ PositionIn(doneOrder, a) < PositionIn(doneOrder, b)

\* processSingleFile(id, file) has called processFile(file): the loop of the
\* submission that holds id is past it, or awaits the call made for it.
Invoked(id) ==
  \E s \in 1..Len(subs) : \E k \in 1..Len(subs[s].ids) :
    /\ subs[s].ids[k] = id
    /\ subs[s].i > k \/ (subs[s].i = k /\ subs[s].pc = "awaiting")

\* A file taken off the list while it was PENDING: no later update finds it, so
\* PENDING stays the only status it was ever given.
RemovedWhilePending(id) == ~InList(files, id) /\ hist[id] = <<"PENDING">>

\* C11: processFile is never invoked on a file that was removed from the list
\* while its status was PENDING (the call is made in the task that makes a listed
\* file PROCESSING, so an invocation on such a file comes after its removal).
C11_RemovedPendingNeverDispatched ==
  \A id \in 1..Len(hist) : RemovedWhilePending(id) => ~Invoked(id)

\* C12 (as claimed): every submitted file is eventually COMPLETED or ERROR.
C12_EveryFileSettles ==
  \A id \in 1..MaxFiles : (id <= Len(hist)) ~> (id <= Len(hist) /\ Terminal(id))

\* C12 (amended): every submitted file is eventually COMPLETED or ERROR, or has
\* been removed from the list, whatever happened to the files before it.
C12_EveryListedFileSettles ==
  \A id \in 1..MaxFiles :
    (id <= Len(hist)) ~> (id <= Len(hist) /\ (Terminal(id) \/ ~InList(files, id)))

\* C12 witness: in one submission a file ended in ERROR and a file after it has
\* its text, both still in the list.
C12_Witness ==
  \E s \in 1..Len(subs) : \E k \in 1..Len(subs[s].ids) : \E j \in (k + 1)..Len(subs[s].ids) :
    /\ hist[subs[s].ids[k]] = <<"PENDING", "PROCESSING", "ERROR">>
    /\ hist[subs[s].ids[j]] = <<"PENDING", "PROCESSING", "COMPLETED">>
    /\ InList(files, subs[s].ids[k]) /\ InList(files, subs[s].ids[j])

-----------------------------------------------------------------------------
(* Further properties of one processFile call (checked under SpecDispatch). *)

\* A File that is dispatched to processZipFile and whose bytes JSZip cannot open.
ContainerFails(f) ==
  /\ classify(f.type, f.name) \in {"Archive", "ArchiveLikeBook"}
  /\ ~f.bytes.zip

\* C13: a top-level archive or EPUB whose container does not open settles as a
\* failure with the loader's error, no text at all (no archive header) and no entry
\* ever dispatched; an entry of an opened archive whose own container does not open
\* leaves the outer outcome a text that holds, under the entry's header, the
\* placeholder with the loader's error, and no archive header for the entry.
C13_ContainerErrorTerminal ==
  /\ (SettledCall /\ ContainerFails(input)) =>
       /\ ~outcome.ok /\ outcome.text = "" /\ outcome.msg = ZipOpenError
       /\ Len(outcome.events) = 2 /\ EventsOf("dispatch") = {1}
  /\ OpenedArchive =>
       \A i \in 1..Len(input.bytes.entries) :
         LET e == input.bytes.entries[i]
         IN  (~e.dir /\ ~e.corrupt /\ ContainerFails(SubFile(e))) =>
               /\ outcome.ok
               /\ Contains(outcome.text, FileHeader(e.path) \o Placeholder(ZipOpenError))
               /\ ~Contains(outcome.text, ArchiveHeader(e.path))

\* C13 witness: b1.zip inside pack.zip is no archive; pack.zip yields its header,
\* the placeholder for b1.zip and then the text of f2.txt.
C13_Witness ==
  /\ OpenedArchive
  /\ input = ArchiveOf(<<"bad", "txt">>)
  /\ outcome.ok
  /\ outcome.text = ArchiveHeader("pack.zip") \o FileHeader("b1.zip")
                    \o Placeholder(ZipOpenError) \o FileHeader("f2.txt") \o "text2\n"

\* The request events and the RemoteMultimodal dispatch events of the File named n.
RequestsFor(n) == {i \in EventsOf("request") : outcome.events[i].name = n}
RemoteDispatchesFor(n) ==
  {i \in EventsOf("dispatch") :
     outcome.events[i].name = n /\ outcome.events[i].tag = "RemoteMultimodal"}

\* A File whose single request to the service fails, and the error it fails with.
RemoteAttemptFails(f) ==
  /\ classify(f.type, f.name) = "RemoteMultimodal"
  /\ apiKey /\ f.size <= MaxInlineBytes
  /\ f.bytes.remote = "error" \/ f.bytes.text = ""
UnderlyingError(f) == IF f.bytes.remote = "error" THEN ServiceError ELSE EmptyResponseError

\* C14: no File, top-level or entry, has more requests issued for it than it has
\* RemoteMultimodal dispatches (at most one request per dispatched File); a
\* top-level File whose request fails settles as a failure whose message is the
\* wrapped underlying error, after exactly one request; an entry whose request
\* fails has the wrapped error in its placeholder, after exactly one request.
C14_NoRetry ==
  SettledCall =>
    /\ \A i \in 1..Len(outcome.events) :
         Cardinality(RequestsFor(outcome.events[i].name))
           <= Cardinality(RemoteDispatchesFor(outcome.events[i].name))
    /\ RemoteAttemptFails(input) =>
         /\ ~outcome.ok /\ outcome.text = ""
         /\ outcome.msg = "Loi trich xuat AI: " \o UnderlyingError(input)
         /\ Cardinality(EventsOf("request")) = 1
    /\ OpenedArchive =>
         \A i \in 1..Len(input.bytes.entries) :
           LET e == input.bytes.entries[i]
           IN  (~e.dir /\ ~e.corrupt /\ RemoteAttemptFails(SubFile(e))) =>
                 /\ Contains(outcome.text,
                             FileHeader(e.path) \o "(Khong the trich xuat file nay trong ZIP: "
                             \o "Error: Loi trich xuat AI: " \o UnderlyingError(SubFile(e)) \o ")\n")
                 /\ Cardinality(RequestsFor(e.path)) = 1

\* C14 witness: with the credential, the service fails on down.pdf and answers
\* nothing for mute.png, both inside scans.zip: one request each, and one for
\* fine.pdf, whose text follows the two placeholders.
C14_Witness ==
  /\ OpenedArchive /\ apiKey
  /\ input.name = "scans.zip"
  /\ Cardinality(EventsOf("request")) = 3
  /\ Contains(outcome.text, "Error: Loi trich xuat AI: " \o ServiceError)
  /\ Contains(outcome.text, "Error: Loi trich xuat AI: " \o EmptyResponseError)
  /\ Contains(outcome.text, FileHeader("fine.pdf") \o "fine\n")

\* What a RemoteMultimodal File fails with when there is no credential.
NoKeyFailure(f) ==
  IF f.size > MaxInlineBytes THEN SizeError
  ELSE "Loi trich xuat AI: API Key is missing. Please checking your environment configuration."

\* C15: without the credential no request is ever issued, whatever the File and
\* however many entries it holds; a top-level RemoteMultimodal File settles as a
\* failure (the missing-key error, when it passes the size check), and so does
\* every RemoteMultimodal entry, in its placeholder.
C15_MissingKeyFailsLocally ==
  (SettledCall /\ ~apiKey) =>
    /\ EventsOf("request") = {}
    /\ TopTag = "RemoteMultimodal" =>
         ~outcome.ok /\ outcome.text = "" /\ outcome.msg = NoKeyFailure(input)
    /\ OpenedArchive =>
         \A i \in 1..Len(input.bytes.entries) :
           LET e == input.bytes.entries[i]
           IN  (~e.dir /\ ~e.corrupt
                /\ classify(SubFile(e).type, SubFile(e).name) = "RemoteMultimodal") =>
                 Contains(outcome.text,
                          FileHeader(e.path) \o "(Khong the trich xuat file nay trong ZIP: Error: "
                          \o NoKeyFailure(SubFile(e)) \o ")\n")

\* C15 witness: without the credential pack.zip with two PDFs and a text file has
\* settled: three dispatched entries, two of them entering the adapter, no request.
C15_Witness ==
  /\ OpenedArchive /\ ~apiKey
  /\ input = ArchiveOf(<<"pdf", "txt", "pdf">>)
  /\ Cardinality(EventsOf("extract")) = 2
  /\ EventsOf("request") = {}
  /\ Contains(outcome.text, FileHeader("f2.txt") \o "text2\n")
  /\ Contains(outcome.text, FileHeader("f3.pdf") \o Placeholder(WrapAI(MissingKeyError)))

\* The read events of the File that event d is about that come before d.
ReadsBefore(d) ==
  {i \in EventsOf("read") :
     i < d /\ outcome.events[i].name = outcome.events[d].name
           /\ outcome.events[i].type = outcome.events[d].type}

\* C16 (as claimed): no File that is dispatched, at any depth, has any of its bytes
\* read or decompressed before its dispatch; the strategy is a function of the
\* declared type and the name alone.
C16_ClassifiedBeforeAnyRead ==
  SettledCall =>
    \A d \in EventsOf("dispatch") :
      /\ ReadsBefore(d) = {}
      /\ outcome.events[d].tag = classify(outcome.events[d].type, outcome.events[d].name)

\* C16 (amended): the top-level File has nothing read before its dispatch; an
\* archive entry has been decompressed to a blob by the loop of the enclosing
\* archive, in the event just before its dispatch, and nothing else of it is read
\* before the dispatch; the strategy is a function of the declared type and the
\* name alone.
C16_ClassifiedBeforeStrategyReads ==
  SettledCall =>
    \A d \in EventsOf("dispatch") :
      /\ ReadsBefore(d) = IF d = 1 THEN {} ELSE {d - 1}
      /\ d > 1 => outcome.events[d - 1].tag = "blob"
      /\ outcome.events[d].tag = classify(outcome.events[d].type, outcome.events[d].name)

\* C16 witness: in pack.zip, f1.txt is decompressed, then dispatched as text, then
\* read as text; two levels down, deep2.txt likewise.
C16_Witness ==
  /\ OpenedArchive
  /\ input = ArchiveOf(<<"txt", "zip">>)
  /\ \E d \in EventsOf("dispatch") :
       /\ outcome.events[d].name = "deep2.txt" /\ outcome.events[d].tag = "PlainOrHtmlText"
       /\ outcome.events[d - 1].op = "read" /\ outcome.events[d - 1].tag = "blob"
       /\ outcome.events[d + 1].op = "read" /\ outcome.events[d + 1].tag = "text"
       /\ outcome.events[d + 1].name = "deep2.txt"

\* The list item that processSingleFile leaves for the File of the settled call,
\* had it been submitted alone to an empty list.
ShownFor(file, r) == Deliver(MarkProcessing(AppendFiles(UIState, <<file>>), 1), 1, r).files[1]

\* C17: a top-level File that no rule matches settles, with nothing read, as a
\* failure whose message ends with the File's declared type as it was given, and
\* processSingleFile shows it as ERROR with that message; an entry that no rule
\* matches leaves the archive's outcome a text, which holds under the entry's header
\* the placeholder with the same error for the type inferred from its extension.
C17_UnsupportedCarriesType ==
  /\ (SettledCall /\ TopTag = "Unsupported") =>
       /\ ~outcome.ok /\ outcome.text = "" /\ Len(outcome.events) = 1
       /\ outcome.msg = "Dinh dang file khong duoc ho tro: " \o input.type
       /\ ShownFor(input, outcome).status = "ERROR"
       /\ ShownFor(input, outcome).errorMessage
            = "Dinh dang file khong duoc ho tro: " \o input.type
       /\ ShownFor(input, outcome).content = ""
  /\ OpenedArchive =>
       \A i \in 1..Len(input.bytes.entries) :
         LET e == input.bytes.entries[i]
         IN  (~e.dir /\ ~e.corrupt
              /\ classify(SubFile(e).type, SubFile(e).name) = "Unsupported") =>
               /\ outcome.ok
               /\ Contains(outcome.text,
                           FileHeader(e.path)
                           \o "(Khong the trich xuat file nay trong ZIP: Error: "
                           \o "Dinh dang file khong duoc ho tro: " \o SubFile(e).type \o ")\n")

\* C17 witness: misc.zip has settled with a text: data.json and conf.XML are
\* refused under the types their extensions give, README under the default type,
\* and notes.md is read.
C17_Witness ==
  /\ OpenedArchive
  /\ input.name = "misc.zip"
  /\ outcome.ok
  /\ Contains(outcome.text, "Dinh dang file khong duoc ho tro: application/json)")
  /\ Contains(outcome.text, "Dinh dang file khong duoc ho tro: text/xml)")
  /\ Contains(outcome.text, "Dinh dang file khong duoc ho tro: application/octet-stream)")
  /\ Contains(outcome.text, FileHeader("notes.md") \o "note\n")

\* A settled call on a presentation package that opened.
OpenedDeck ==
  /\ SettledCall
  /\ TopTag = "PresentationPackage"
  /\ input.bytes.zip

\* The generated slide of number n is a part of the input.
HasSlide(n) ==
  \E i \in 1..Len(input.bytes.entries) : input.bytes.entries[i].path = SlidePath(n)

\* The block of the generated slide of number n.
SlideBlock(n) == IF n = 3 THEN "(Trang trong)\n" ELSE "s" \o ToString(n) \o " \n"

\* The lengths of the blocks of the slides of the input whose number is in ns.
RECURSIVE BlockLengths(_)
BlockLengths(ns) ==
  IF ns = {} THEN 0
  ELSE LET n == CHOOSE x \in ns : TRUE
       IN  (IF HasSlide(n) THEN Len(SlideBlock(n)) ELSE 0) + BlockLengths(ns \ {n})

\* C18: the text of a generated package holds the block of each of its slides, the
\* block of a slide of smaller number before the block of a slide of greater number
\* whatever the listing order (1, 2, 3, 10), and nothing else: no part that is not
\* a slide contributes.
C18_SlidesInNumericOrder ==
  (OpenedDeck /\ input.name = "talk.pptx" /\ \E n \in SlideNumbers : HasSlide(n)) =>
    /\ outcome.ok
    /\ \A n \in SlideNumbers : HasSlide(n) => Contains(outcome.text, SlideBlock(n))
    /\ \A n, m \in SlideNumbers :
         (HasSlide(n) /\ HasSlide(m) /\ n < m) =>
           IndexOf(outcome.text, SlideBlock(n)) < IndexOf(outcome.text, SlideBlock(m))
    /\ Len(outcome.text) = BlockLengths(SlideNumbers)
    /\ ~Contains(outcome.text, "part")

\* C18 witness: a package listing slide10, a slide layout and slide2 has settled
\* with the text of slide 2 followed by the text of slide 10.
C18_Witness ==
  /\ OpenedDeck
  /\ Len(input.bytes.entries) = 3
  /\ input.bytes.entries[1].path = "ppt/slides/slide10.xml"
  /\ input.bytes.entries[2].path = "ppt/slideLayouts/slideLayout1.xml"
  /\ input.bytes.entries[3].path = "ppt/slides/slide2.xml"
  /\ outcome.ok /\ outcome.text = "s2 \ns10 \n"

\* An entry named as a slide of the package; a slide none of whose text runs has
\* a character that is not whitespace.
NamedSlide(e) == \E n \in 1..10 : e.path = SlidePath(n)
OnlyWhitespaceRuns(e) ==
  \A i \in 1..Len(e.bytes.runs) : \A j \in 1..Len(e.bytes.runs[i]) :
    CharAt(e.bytes.runs[i], j) \in {" ", "\t", "\n", "\r"}

RECURSIVE Repeat(_, _)
Repeat(str, k) == IF k = 0 THEN "" ELSE str \o Repeat(str, k - 1)

\* C19: a package that opened settles with a text that is never empty; without
\* any slide the text is the not-found marker; every slide with no text run or with
\* whitespace runs only puts the line "(Trang trong)" in the text, and a package
\* of k such slides and no other slide gives exactly k such lines.
C19_BlankAndNotFoundMarkers ==
  OpenedDeck =>
    LET parts == input.bytes.entries
        slides == {i \in 1..Len(parts) : NamedSlide(parts[i])}
        blank == {i \in slides : OnlyWhitespaceRuns(parts[i])}
    IN  /\ outcome.ok /\ outcome.text # ""
        /\ slides = {} => outcome.text = "(Khong tim thay noi dung van ban trong slide)"
        /\ blank # {} => Contains(outcome.text, "(Trang trong)\n")
        /\ (blank = slides /\ slides # {}) =>
             outcome.text = Repeat("(Trang trong)\n", Cardinality(slides))

\* C19 witness: deck.pptx, whose slide 1 has whitespace runs only, has settled
\* with the marker line for slide 1 before the text of slides 2 and 10.
C19_Witness ==
  /\ OpenedDeck
  /\ input.name = "deck.pptx"
  /\ outcome.ok /\ outcome.text = "(Trang trong)\ntwo \nten x \n"

-----------------------------------------------------------------------------
(* Further properties of the upload queue (checked under Spec).             *)

\* The listed files shown as PROCESSING; the submissions awaiting a processFile call.
ProcessingNow == {i \in 1..Len(files) : files[i].status = "PROCESSING"}
InFlight == {s \in 1..Len(subs) : subs[s].pc = "awaiting"}

\* C20: at most one listed file is PROCESSING and at most one processFile call is
\* awaited, whatever was submitted and when.
C20_OneAtATime == Cardinality(ProcessingNow) <= 1 /\ Cardinality(InFlight) <= 1

\* C21: selectedFileId is null (0) or the id of a file in the list.
C21_SelectionInList == selectedFileId = 0 \/ InList(files, selectedFileId)

\* The extraction call made for file id has settled.
CallSettled(id) ==
  \E s \in 1..Len(subs) : \E k \in 1..Len(subs[s].ids) :
    subs[s].ids[k] = id /\ subs[s].i > k

\* C22: in every step, a listed file that is COMPLETED or ERROR is, if still
\* listed after the step, the same item (status, content and error message
\* unchanged), and every file listed after the step was listed before it or has
\* just been created: a removed file never comes back.
C22_OutcomeAndRemovalFinal ==
  [][ /\ \A i \in 1..Len(files) : \A j \in 1..Len(files') :
           (files[i].id = files'[j].id /\ files[i].status \in {"COMPLETED", "ERROR"}) =>
             files'[j] = files[i]
      /\ \A j \in 1..Len(files') :
           InList(files, files'[j].id) \/ files'[j].id > Len(hist) ]_vars

\* C22 witness: a file was removed while its extraction was in flight and the
\* call has settled since; a listed file is COMPLETED with its text, and another
\* file got its outcome after it.
C22_Witness ==
  /\ \E id \in 1..Len(hist) :
       /\ ~InList(files, id)
       /\ hist[id] = <<"PENDING", "PROCESSING">>
       /\ CallSettled(id)
  /\ \E i \in 1..Len(files) :
       /\ files[i].status = "COMPLETED" /\ files[i].content = "scan"
       /\ doneOrder # <<>> /\ doneOrder[Len(doneOrder)] # files[i].id

====
